---- MODULE Spec2Model ----
(***************************************************************************)
(* pelican_katex: the lexer that splits a generated HTML document into     *)
(* literal characters and math regions, the render cache with its on-disk  *)
(* encoding, the call-out to the katex tool, and the file pipeline.        *)
(*                                                                         *)
(* Text is a sequence of one-character strings.  Python positions are      *)
(* 0-based; positions here are 1-based, so lexpos = 1 is Python lexpos 0   *)
(* and lexpos = Len(data) + 1 is the end of the buffer.                    *)
(***************************************************************************)
EXTENDS Integers, Sequences, FiniteSets, TLC

VARIABLES
  pc,           \* where process_files (or the lexer driver) stands
  cache_file,   \* katex_cache.json on disk
  katex_cache,  \* the dict of the run, in insertion order
  loaded,       \* what load_cache returned in this run
  todo,         \* names os.walk has still to yield
  filename,     \* the name os.walk yielded last
  disk,         \* content on disk of the file being processed
  content,      \* what process_file read from that file
  lexpos,       \* lexer.lexpos
  toks,         \* the tokens lexer.token() returned for this input
  rets,         \* what katex() returned for the math tokens of this input
  cache0,       \* katex_cache when process_file was entered
  popen,        \* every child process started in this run, in order
  popen0,       \* how many had been started when process_file was entered
  seen,         \* every math token of this run: its text, mode and cache key
  returned,     \* every (key, string) katex() returned in this run
  last,         \* the last katex() call: key, tool, hit or miss, outcome
  err,          \* the exception that ended the run, or "none"
  calls,        \* how often load_cache and save_cache were called, and how
                \* process_file left the file it was called for last
  lexer         \* the lexer ply built from the configured patterns

vars == <<pc, cache_file, katex_cache, loaded, todo, filename, disk, content,
          lexpos, toks, rets, cache0, popen, popen0, seen, returned, last,
          err, calls, lexer>>

(***************************************************************************)
(* Bounds of the model.                                                    *)
(***************************************************************************)
MaxPieces == 4
MaxSegs == 2
MaxFiles == 2
MaxEntries == 2

(***************************************************************************)
(* Sequence helpers.                                                       *)
(***************************************************************************)
RECURSIVE Flatten(_)
Flatten(ss) == IF ss = <<>> THEN <<>> ELSE Head(ss) \o Flatten(Tail(ss))

Slice(data, from, to) == IF from > to THEN <<>> ELSE SubSeq(data, from, to)

SeqsUpTo(S, n) == UNION {[1..k -> S] : k \in 0..n}

None == [none |-> TRUE]

(***************************************************************************)
(* The match patterns, INLINE_LATEX_REGEX and DISPLAY_LATEX_REGEX.         *)
(*   <tt\s+class="math">([\S\s]+?)</tt>                                    *)
(*   <pre\s+class="math">([\S\s]+?)</pre>                                  *)
(* Both have the shape  open \s+ class="math"> ([\S\s]+?) close.           *)
(***************************************************************************)
TT_OPEN == <<"<", "t", "t">>
TT_CLOSE == <<"<", "/", "t", "t", ">">>
PRE_OPEN == <<"<", "p", "r", "e">>
PRE_CLOSE == <<"<", "/", "p", "r", "e", ">">>
CLASS_MATH == <<"c", "l", "a", "s", "s", "=", "\"", "m", "a", "t", "h", "\"", ">">>

\* the characters \s matches, among those of the model's alphabet
WhiteSpace == {" ", "\n", "\t"}

\* data has the literal lit at position pos
LitAt(data, pos, lit) ==
  /\ pos >= 1
  /\ pos + Len(lit) - 1 <= Len(data)
  /\ \A i \in 1..Len(lit) : data[pos + i - 1] = lit[i]

\* the first position >= pos that holds no whitespace (\s+ is greedy, and
\* giving whitespace back never helps: "c" is not whitespace)
RECURSIVE SkipSpace(_, _)
SkipSpace(data, pos) ==
  IF pos <= Len(data) /\ data[pos] \in WhiteSpace
  THEN SkipSpace(data, pos + 1) ELSE pos

\* the least member of a set of positions, 0 for none
FirstOf(ends) ==
  IF ends = {} THEN 0 ELSE CHOOSE e \in ends : \A f \in ends : e <= f

\* a greedy quantifier: the last position where the closing literal follows
FirstCloseMutGreedy(data, from, close) ==
  IF {e \in (from + 1)..Len(data) : LitAt(data, e, close)} = {} THEN 0
  ELSE CHOOSE e \in {f \in (from + 1)..Len(data) : LitAt(data, f, close)} :
         \A f \in (e + 1)..Len(data) : ~LitAt(data, f, close)

\* the lazy quantifier +? takes at least one character and then stops at the
\* first position where the closing literal follows
FirstClose(data, from, close) ==
  FirstOf({e \in (from + 1)..Len(data) : LitAt(data, e, close)})

\* the match whose captured group starts at in and whose closing literal
\* starts at e: its whole text (group 0 of the pattern), its captured group
\* and the position after it
MatchUpTo(data, pos, in, e, close) ==
  IF e = 0 THEN None
  ELSE [whole |-> Slice(data, pos, e + Len(close) - 1),
        inner |-> Slice(data, in, e - 1),
        end |-> e + Len(close)]

\* the rest of the pattern after open, from position ws on: whitespace up
\* to cl, then class="math">, the captured group and the closing literal
MatchAfterOpen(data, pos, ws, cl, close) ==
  IF cl = ws \/ ~LitAt(data, cl, CLASS_MATH) THEN None
  ELSE MatchUpTo(data, pos, cl + Len(CLASS_MATH),
                 FirstClose(data, cl + Len(CLASS_MATH), close), close)

\* re.match of one pattern at pos: None or the match
MatchMath(data, pos, open, close) ==
  IF ~LitAt(data, pos, open) THEN None
  ELSE MatchAfterOpen(data, pos, pos + Len(open),
                      SkipSpace(data, pos + Len(open)), close)

INLINE_LATEX_REGEX(data, pos) == MatchMath(data, pos, TT_OPEN, TT_CLOSE)
DISPLAY_LATEX_REGEX(data, pos) == MatchMath(data, pos, PRE_OPEN, PRE_CLOSE)

(***************************************************************************)
(* The master pattern ply builds from the rules: the function rules in     *)
(* definition order, then the string rules,                                *)
(*   (?P<t_LATEX_INLINE>..(..)..)|(?P<t_LATEX_DISPLAY>..(..)..)|(?P<t_HTML>.)*)
(* so a match has five groups; lastindex is the rule's own group.  The two *)
(* patterns are module constants meant to be replaced (lines 24-26); the   *)
(* lexer records how many capture groups the display pattern it was built  *)
(* from has: one as shipped, none for a pattern written without its        *)
(* parentheses, and then a match has four groups.                          *)
(***************************************************************************)
DefaultLexer == [display_groups |-> 1]
BareLexer == [display_groups |-> 0]

\* groups() of the master pattern, given the five groups of the shipped one
Groups(gs) ==
  IF lexer.display_groups = 1 THEN gs ELSE <<gs[1], gs[2], gs[3], gs[5]>>

\* the match of the master pattern, given what its first two alternatives
\* match at pos; types names the type of each member of groups (a group
\* that took no part in the match is None)
MasterMatch(data, pos, mi, md) ==
  IF mi # None
  THEN [lastindex |-> 1, end |-> mi.end, group |-> mi.whole,
        groups |-> Groups(<<mi.whole, mi.inner, None, None, None>>),
        types |-> Groups(<<"str", "str", "NoneType", "NoneType", "NoneType">>)]
  ELSE IF md # None
  THEN [lastindex |-> 3, end |-> md.end, group |-> md.whole,
        groups |-> Groups(<<None, None, md.whole, md.inner, None>>),
        types |-> Groups(<<"NoneType", "NoneType", "str", "str", "NoneType">>)]
  ELSE [lastindex |-> 4 + lexer.display_groups, end |-> pos + 1,
        group |-> <<data[pos]>>,
        groups |-> Groups(<<None, None, None, None, <<data[pos]>> >>),
        types |-> Groups(<<"NoneType", "NoneType", "NoneType", "NoneType",
                           "str">>)]

lexmatch(data, pos) ==
  MasterMatch(data, pos, INLINE_LATEX_REGEX(data, pos),
              DISPLAY_LATEX_REGEX(data, pos))

LatexExpression(display_mode, expression) ==
  [display_mode |-> display_mode, expression |-> expression]

\* type(t.value) once a rule has set it, by the type of the group it took
ExpressionOf(type) ==
  IF type = "str" THEN "LatexExpression" ELSE "LatexExpression of None"

\* groups[0] is taken: the whole region with its delimiters
t_LATEX_INLINEMutWhole(t, m) ==
  IF Len(m.groups) > 1
  THEN [t EXCEPT !.value = LatexExpression(FALSE, m.groups[1]),
                 !.value_type = ExpressionOf(m.types[1])]
  ELSE t

\* groups[1] of Python is the second group
t_LATEX_INLINE(t, m) ==
  IF Len(m.groups) > 1
  THEN [t EXCEPT !.value = LatexExpression(FALSE, m.groups[2]),
                 !.value_type = ExpressionOf(m.types[2])]
  ELSE t

\* groups[3] of Python is the fourth group
t_LATEX_DISPLAY(t, m) ==
  IF Len(m.groups) > 3
  THEN [t EXCEPT !.value = LatexExpression(TRUE, m.groups[4]),
                 !.value_type = ExpressionOf(m.types[4])]
  ELSE t

\* the token ply makes of a match at pos before the rule's function runs:
\* text is what the rule matched (the value the token starts with, a str),
\* value_type is type(t.value) and end is lexer.lexpos after the call
NewToken(type, m, pos) ==
  [type |-> type, value |-> m.group, value_type |-> "str", text |-> m.group,
   lexpos |-> pos, end |-> m.end]

\* the token of the rule that matched
TokenOf(m, pos) ==
  IF m.lastindex = 1
  THEN t_LATEX_INLINE(NewToken("LATEX_INLINE", m, pos), m)
  ELSE IF m.lastindex = 3
  THEN t_LATEX_DISPLAY(NewToken("LATEX_DISPLAY", m, pos), m)
  ELSE NewToken("HTML", m, pos)

\* the cursor stops one character short of the end of a math region
TokenShort(t) ==
  IF t.type = "HTML" THEN t ELSE [t EXCEPT !.end = t.end - 1]

LexTokenMutShort(data, pos) ==
  IF pos > Len(data) THEN None
  ELSE TokenShort(TokenOf(lexmatch(data, pos), pos))

\* a literal character is returned without the cursor moving past it
TokenStall(t) ==
  IF t.type = "HTML" THEN [t EXCEPT !.end = t.lexpos] ELSE t

LexTokenMutStall(data, pos) ==
  IF pos > Len(data) THEN None
  ELSE TokenStall(TokenOf(lexmatch(data, pos), pos))

\* lexer.token(): None at the end of the buffer, else the token of the rule
\* that matches at lexpos
LexToken(data, pos) ==
  IF pos > Len(data) THEN None ELSE TokenOf(lexmatch(data, pos), pos)

(***************************************************************************)
(* html.unescape, as write_output applies it to the captured text.  The    *)
(* character references are those of the pattern                           *)
(*   &(#[0-9]+;?|#[xX][0-9a-fA-F]+;?|[^\t\n\f <&#;]{1,32};?)               *)
(* The model's alphabet has no "#", so only named references occur; html5  *)
(* is the part of the standard table the alphabet can spell.               *)
(***************************************************************************)
NameStop == {"\t", "\n", "\f", " ", "<", "&", "#", ";"}

html5Names == {<<"a", "m", "p">>, <<"a", "m", "p", ";">>,
               <<"l", "t">>, <<"l", "t", ";">>,
               <<"g", "t">>, <<"g", "t", ";">>}

html5(name) ==
  IF name[1] = "a" THEN <<"&">> ELSE IF name[1] = "l" THEN <<"<">> ELSE <<">">>

\* the end of the longest run of name characters from pos, at most 32 long
RECURSIVE NameEnd(_, _, _)
NameEnd(data, pos, n) ==
  IF n < 32 /\ pos <= Len(data) /\ data[pos] \notin NameStop
  THEN NameEnd(data, pos + 1, n + 1) ELSE pos

\* the greatest member of a set of lengths, 0 for none
LastOf(xs) == IF xs = {} THEN 0 ELSE CHOOSE x \in xs : \A y \in xs : x >= y

\* the length of the longest proper prefix of s, two characters or more,
\* that is a name
LongestName(s) ==
  LastOf({x \in 2..(Len(s) - 1) : Slice(s, 1, x) \in html5Names})

ReplaceByPrefix(s, x) ==
  IF x = 0 THEN <<"&">> \o s
  ELSE html5(Slice(s, 1, x)) \o Slice(s, x + 1, Len(s))

\* _replace_charref for a named reference s (without the "&")
replace_charref(s) ==
  IF s \in html5Names THEN html5(s) ELSE ReplaceByPrefix(s, LongestName(s))

\* the end of the reference whose name ends before ne: a ";" there belongs
\* to it
RefEnd(data, ne) == IF ne <= Len(data) /\ data[ne] = ";" THEN ne + 1 ELSE ne

RECURSIVE unescape_from(_, _)
\* the "&" at pos with the name characters after it ending before ne
unescape_amp(data, pos, ne) ==
  IF ne = pos + 1 THEN <<"&">> \o unescape_from(data, pos + 1)
  ELSE replace_charref(Slice(data, pos + 1, RefEnd(data, ne) - 1))
       \o unescape_from(data, RefEnd(data, ne))

unescape_from(data, pos) ==
  IF pos > Len(data) THEN <<>>
  ELSE IF data[pos] # "&" THEN <<data[pos]>> \o unescape_from(data, pos + 1)
  ELSE unescape_amp(data, pos, NameEnd(data, pos + 1, 0))

html_unescape(s) == unescape_from(s, 1)

(***************************************************************************)
(* The render cache: a Python dict keyed by (latex, display_mode), kept    *)
(* here in insertion order as a sequence of entries with distinct keys.    *)
(***************************************************************************)
CacheKeys(c) == {c[i].key : i \in 1..Len(c)}

CacheHas(c, k) == k \in CacheKeys(c)

CacheGet(c, k) == c[CHOOSE i \in 1..Len(c) : c[i].key = k].value

\* c[k] = v
CachePut(c, k, v) ==
  IF CacheHas(c, k)
  THEN [i \in 1..Len(c) |-> IF c[i].key = k THEN [key |-> k, value |-> v]
                                            ELSE c[i]]
  ELSE Append(c, [key |-> k, value |-> v])

\* the mapping a dict stands for, whatever its insertion order
AsMap(c) == {<<c[i].key, c[i].value>> : i \in 1..Len(c)}

(***************************************************************************)
(* katex_cache.json.  The file is absent, or holds text json.load cannot   *)
(* parse, or holds one flat object: its items in the order written.        *)
(***************************************************************************)
NoFile == [state |-> "absent", items |-> <<>>]
BadFile == [state |-> "corrupt", items |-> <<>>]
TableFile(items) == [state |-> "table", items |-> items]

\* code points of the model's alphabet, for the order sort_keys uses
ord(c) ==
  CASE c = "\t" -> 9 [] c = "\n" -> 10 [] c = " " -> 32 [] c = "\"" -> 34
    [] c = "&" -> 38 [] c = "/" -> 47 [] c = "0" -> 48 [] c = "1" -> 49
    [] c = ";" -> 59 [] c = "<" -> 60 [] c = "=" -> 61 [] c = ">" -> 62
    [] c = "[" -> 91 [] c = "]" -> 93 [] c = "a" -> 97 [] c = "c" -> 99
    [] c = "e" -> 101 [] c = "h" -> 104 [] c = "l" -> 108 [] c = "m" -> 109
    [] c = "p" -> 112 [] c = "r" -> 114 [] c = "s" -> 115 [] c = "t" -> 116
    [] c = "x" -> 120 [] c = "y" -> 121 [] c = "{" -> 123 [] c = "}" -> 125

\* a < b for Python strings
RECURSIVE StrLess(_, _)
StrLess(a, b) ==
  IF b = <<>> THEN FALSE
  ELSE IF a = <<>> THEN TRUE
  ELSE IF ord(Head(a)) # ord(Head(b)) THEN ord(Head(a)) < ord(Head(b))
  ELSE StrLess(Tail(a), Tail(b))

\* {k: v for ...}: a later item with the same key replaces the value of the
\* earlier one and keeps its place
RECURSIVE DictOf(_)
DictOf(items) ==
  IF items = <<>> THEN <<>>
  ELSE CachePut(DictOf(Slice(items, 1, Len(items) - 1)),
                items[Len(items)].key, items[Len(items)].value)

\* sort_keys=True
RECURSIVE InsertSorted(_, _)
InsertSorted(sorted, it) ==
  IF sorted = <<>> THEN <<it>>
  ELSE IF StrLess(it.key, Head(sorted).key) THEN <<it>> \o sorted
  ELSE <<Head(sorted)>> \o InsertSorted(Tail(sorted), it)

RECURSIVE SortKeys(_)
SortKeys(items) ==
  IF items = <<>> THEN <<>>
  ELSE InsertSorted(SortKeys(Tail(items)), Head(items))

\* ('1' if display else '0') + key
EncodeKey(k) == (IF k[2] THEN <<"1">> ELSE <<"0">>) \o k[1]

\* (key[1:], key[0] == '1')
DecodeKeyMutZero(key) == <<Tail(key), key[1] = "0">>

DecodeKey(key) == <<Tail(key), key[1] = "1">>

\* json.dump without sort_keys: the items in the dict's own order
save_cacheMutUnsorted(cache) ==
  TableFile(DictOf([i \in 1..Len(cache) |->
              [key |-> EncodeKey(cache[i].key), value |-> cache[i].value]]))

save_cache(cache) ==
  TableFile(SortKeys(DictOf([i \in 1..Len(cache) |->
              [key |-> EncodeKey(cache[i].key), value |-> cache[i].value]])))

\* IOError is the only exception caught: a file that does not parse raises
\* ValueError, and key[0] of an empty key raises IndexError
load_cache(file) ==
  IF file.state = "absent" THEN [exc |-> "none", cache |-> <<>>]
  ELSE IF file.state = "corrupt" THEN [exc |-> "ValueError", cache |-> <<>>]
  ELSE IF \E i \in 1..Len(file.items) : file.items[i].key = <<>>
  THEN [exc |-> "IndexError", cache |-> <<>>]
  ELSE [exc |-> "none",
        cache |-> DictOf([i \in 1..Len(file.items) |->
                    [key |-> DecodeKey(file.items[i].key),
                     value |-> file.items[i].value]])]

(***************************************************************************)
(* katex(): the cache lookup and, on a miss, one exchange with the tool.   *)
(* The tool is outside the program; what it does is an input of the call:  *)
(*   "typeset"  it starts and writes its rendering to stdout,              *)
(*   "silent"   it starts and exits having written nothing,                *)
(*   "missing"  it cannot be started, Popen raises OSError,                *)
(*   "garbled"  it starts and writes bytes that are not UTF-8, so the      *)
(*              decode of line 123 raises UnicodeDecodeError.              *)
(***************************************************************************)
ToolBehaviours == {"typeset", "silent", "missing", "garbled"}

\* a stand-in for the markup the tool writes for a source and a mode
Typeset(latex, display_mode) ==
  IF display_mode THEN <<"{">> \o latex \o <<"}">>
  ELSE <<"[">> \o latex \o <<"]">>

Stdout(latex, display_mode, tool) ==
  IF tool = "typeset" THEN Typeset(latex, display_mode) ELSE <<>>

Args(display_mode) == IF display_mode THEN <<"katex", "-d">> ELSE <<"katex">>

\* the child process of one exchange
Process(latex, display_mode, result) ==
  [args |-> Args(display_mode), stdin |-> latex, stdin_closed |-> TRUE,
   stdout |-> result, terminated |-> TRUE]

\* bytes that do not decode as UTF-8
BadBytes == <<"\\", "x", "f", "f">>

\* the child process of an exchange that raised at line 123: line 124,
\* process.terminate(), was not reached
Abandoned(latex, display_mode) ==
  [args |-> Args(display_mode), stdin |-> latex, stdin_closed |-> TRUE,
   stdout |-> BadBytes, terminated |-> FALSE]

\* a call that finds its key in the cache
Hit(k, cache) ==
  [exc |-> "none", result |-> CacheGet(cache, k), cache |-> cache,
   spawned |-> <<>>, hit |-> TRUE, key |-> k]

\* a call for which Popen raises, leaving the cache as after
Raised(k, after) ==
  [exc |-> "OSError", result |-> <<>>, cache |-> after, spawned |-> <<>>,
   hit |-> FALSE, key |-> k]

\* a call for which the decode of the tool's output raises, leaving the
\* cache as after
Failed(k, after) ==
  [exc |-> "UnicodeDecodeError", result |-> <<>>, cache |-> after,
   spawned |-> <<Abandoned(k[1], k[2])>>, hit |-> FALSE, key |-> k]

\* a call that read result from the tool, leaving the cache as after
Rendered(k, result, after) ==
  [exc |-> "none", result |-> result, cache |-> after,
   spawned |-> <<Process(k[1], k[2], result)>>, hit |-> FALSE, key |-> k]

\* the result is not stored
katexMutNoStore(latex, display_mode, cache, tool) ==
  IF CacheHas(cache, <<latex, display_mode>>)
  THEN Hit(<<latex, display_mode>>, cache)
  ELSE IF tool = "missing" THEN Raised(<<latex, display_mode>>, cache)
  ELSE IF tool = "garbled" THEN Failed(<<latex, display_mode>>, cache)
  ELSE Rendered(<<latex, display_mode>>, Stdout(latex, display_mode, tool),
                cache)

\* the key leaves out the display mode
katexMutKeyNoMode(latex, display_mode, cache, tool) ==
  IF CacheHas(cache, <<latex, FALSE>>) THEN Hit(<<latex, FALSE>>, cache)
  ELSE IF tool = "missing" THEN Raised(<<latex, FALSE>>, cache)
  ELSE IF tool = "garbled" THEN Failed(<<latex, FALSE>>, cache)
  ELSE Rendered(<<latex, FALSE>>, Stdout(latex, display_mode, tool),
                CachePut(cache, <<latex, FALSE>>,
                         Stdout(latex, display_mode, tool)))

\* the entry is made before the tool is started
katexMutStoreFirst(latex, display_mode, cache, tool) ==
  IF CacheHas(cache, <<latex, display_mode>>)
  THEN Hit(<<latex, display_mode>>, cache)
  ELSE IF tool = "missing"
  THEN Raised(<<latex, display_mode>>,
              CachePut(cache, <<latex, display_mode>>, <<>>))
  ELSE IF tool = "garbled"
  THEN Failed(<<latex, display_mode>>,
              CachePut(cache, <<latex, display_mode>>, <<>>))
  ELSE Rendered(<<latex, display_mode>>, Stdout(latex, display_mode, tool),
                CachePut(cache, <<latex, display_mode>>,
                         Stdout(latex, display_mode, tool)))

\* the result of a call: the exception raised or "none", the string returned,
\* the cache after the call, the child processes started, hit or miss
katex(latex, display_mode, cache, tool) ==
  IF CacheHas(cache, <<latex, display_mode>>)
  THEN Hit(<<latex, display_mode>>, cache)
  ELSE IF tool = "missing" THEN Raised(<<latex, display_mode>>, cache)
  ELSE IF tool = "garbled" THEN Failed(<<latex, display_mode>>, cache)
  ELSE Rendered(<<latex, display_mode>>, Stdout(latex, display_mode, tool),
                CachePut(cache, <<latex, display_mode>>,
                         Stdout(latex, display_mode, tool)))

\* should_process, over the names the walk can yield
INCLUDE_TYPES == {".html"}
FileNames == {"index.html", "style.css"}
Extension(name) == IF name = "index.html" THEN ".html" ELSE ".css"
should_process(name) == \E extension \in INCLUDE_TYPES : Extension(name) = extension

USE_PERSISTENT_CACHE == TRUE

(***************************************************************************)
(* The documents of the model.                                             *)
(***************************************************************************)
TT_MARK == TT_OPEN \o <<" ">> \o CLASS_MATH
PRE_MARK == PRE_OPEN \o <<" ">> \o CLASS_MATH

InlineMath(s) == TT_MARK \o s \o TT_CLOSE
DisplayMath(s) == PRE_MARK \o s \o PRE_CLOSE

\* for the lexer alone: every concatenation of a few markers and characters
Pieces == {TT_MARK, TT_CLOSE, PRE_MARK, PRE_CLOSE, <<"x">>,
           TT_OPEN \o <<"\n", " ">> \o CLASS_MATH}
ScanDocs == {Flatten(ss) : ss \in SeqsUpTo(Pieces, MaxPieces)}

\* for the file pipeline: a few literal characters and math regions
\* optionally cut short inside a last math region
Segments == {<<"x">>, InlineMath(<<"&", "a", "m", "p", ";">>),
             InlineMath(<<"&">>), DisplayMath(<<"&">>)}
Tails == {<<>>, TT_MARK \o <<"x">>}
RunDocs == {Flatten(ss) \o tail : ss \in SeqsUpTo(Segments, MaxSegs),
                                  tail \in Tails}

\* the cache files an earlier run can have left behind
SavedCaches ==
  {<<[key |-> <<<<"&">>, FALSE>>, value |-> <<"y">>]>>}
InitCacheFiles == {NoFile, BadFile} \cup {save_cache(c) : c \in SavedCaches}

(***************************************************************************)
(* The run: process_files.                                                 *)
(***************************************************************************)
\* nothing called yet, no file handed to process_file yet
NoCalls == [load_cache |-> 0, save_cache |-> 0, file |-> "none"]

Init ==
  /\ pc = "start"
  /\ cache_file \in InitCacheFiles
  /\ katex_cache = <<>>
  /\ loaded = <<>>
  /\ todo = MaxFiles
  /\ filename = ""
  /\ disk = <<>>
  /\ content = <<>>
  /\ lexpos = 1
  /\ toks = <<>>
  /\ rets = <<>>
  /\ cache0 = <<>>
  /\ popen = <<>>
  /\ popen0 = 0
  /\ seen = {}
  /\ returned = {}
  /\ last = None
  /\ err = "none"
  /\ calls = NoCalls
  /\ lexer = DefaultLexer

\* what process_files does with the outcome r of load_cache
StartWith(r) ==
  IF r.exc = "none"
  THEN /\ katex_cache' = r.cache
       /\ loaded' = r.cache
       /\ pc' = "walk"
       /\ err' = err
  ELSE /\ pc' = "raised"
       /\ err' = r.exc
       /\ UNCHANGED <<katex_cache, loaded>>

\* lines 93-97: katex_cache = load_cache(); an exception load_cache does not
\* catch ends the run
LoadCache ==
  /\ pc = "start"
  /\ USE_PERSISTENT_CACHE
  /\ StartWith(load_cache(cache_file))
  /\ calls' = [calls EXCEPT !.load_cache = @ + 1]
  /\ UNCHANGED lexer
  /\ UNCHANGED <<cache_file, todo, filename, disk, content, lexpos, toks,
                 rets, cache0, popen, popen0, seen, returned, last>>

\* lines 100-101: the walk yields a name should_process rejects
SkipFile ==
  /\ pc = "walk"
  /\ todo > 0
  /\ \E name \in FileNames :
       /\ ~should_process(name)
       /\ filename' = name
  /\ todo' = todo - 1
  /\ UNCHANGED <<calls, lexer>>
  /\ UNCHANGED <<pc, cache_file, katex_cache, loaded, disk, content, lexpos,
                 toks, rets, cache0, popen, popen0,
                 seen, returned, last, err>>

\* the empty file is opened for writing like any other
process_fileMutNoReturn ==
  /\ pc = "walk"
  /\ todo > 0
  /\ \E name \in FileNames, doc \in RunDocs :
       /\ should_process(name)
       /\ filename' = name
       /\ content' = doc
  /\ disk' = <<>>
  /\ pc' = "write"
  /\ todo' = todo
  /\ calls' = [calls EXCEPT !.file = "opened"]
  /\ lexpos' = 1
  /\ toks' = <<>>
  /\ rets' = <<>>
  /\ cache0' = katex_cache
  /\ popen0' = Len(popen)
  /\ UNCHANGED <<cache_file, katex_cache, loaded, popen, seen, returned, last,
                 err, lexer>>

\* process_file up to the call of write_output: read the file, return if it
\* is empty, else open it for writing (which truncates it) and hand the
\* content to the lexer
process_file ==
  /\ pc = "walk"
  /\ todo > 0
  /\ \E name \in FileNames, doc \in RunDocs :
       /\ should_process(name)
       /\ filename' = name
       /\ content' = doc
       /\ IF doc = <<>>
          THEN /\ disk' = doc
               /\ pc' = "walk"
               /\ todo' = todo - 1
               /\ calls' = [calls EXCEPT !.file = "empty"]
          ELSE /\ disk' = <<>>
               /\ pc' = "write"
               /\ todo' = todo
               /\ calls' = [calls EXCEPT !.file = "opened"]
  /\ lexpos' = 1
  /\ toks' = <<>>
  /\ rets' = <<>>
  /\ cache0' = katex_cache
  /\ popen0' = Len(popen)
  /\ UNCHANGED <<cache_file, katex_cache, loaded, popen, seen, returned, last,
                 err, lexer>>

\* line 147: the file cannot be opened; nothing catches the exception
process_file_IOError ==
  /\ pc = "walk"
  /\ todo > 0
  /\ \E name \in FileNames :
       /\ should_process(name)
       /\ filename' = name
  /\ pc' = "raised"
  /\ err' = "IOError"
  /\ calls' = [calls EXCEPT !.file = "unread"]
  /\ UNCHANGED lexer
  /\ UNCHANGED <<cache_file, katex_cache, loaded, todo, disk, content, lexpos,
                 toks, rets, cache0, popen, popen0,
                 seen, returned, last>>

\* the loop has the token tok and writes written for it
Consume(tok, written) ==
  /\ tok # None
  /\ tok.type = "HTML"
  /\ disk' = disk \o written
  /\ lexpos' = tok.end
  /\ toks' = Append(toks, tok)

\* the token is consumed and nothing is written
write_output_HTMLMutDrop ==
  /\ pc = "write"
  /\ Consume(LexToken(content, lexpos), <<>>)
  /\ UNCHANGED <<calls, lexer>>
  /\ UNCHANGED <<pc, cache_file, katex_cache, loaded, todo, filename, content,
                 rets, cache0, popen, popen0, seen, returned, last, err>>

\* write_output, one turn of the loop with an HTML token
write_output_HTML ==
  /\ pc = "write"
  /\ Consume(LexToken(content, lexpos), LexToken(content, lexpos).value)
  /\ UNCHANGED <<calls, lexer>>
  /\ UNCHANGED <<pc, cache_file, katex_cache, loaded, todo, filename, content,
                 rets, cache0, popen, popen0, seen, returned, last, err>>

\* an exception leaves the file as it was read, as if the output went to a
\* temporary file that replaces the original only at the end
ReplaceMutAtomic(tok, tool, r, written) ==
  /\ lexpos' = tok.end
  /\ toks' = Append(toks, tok)
  /\ seen' = seen \cup {[source |-> tok.value.expression,
                         display |-> tok.value.display_mode, key |-> r.key]}
  /\ last' = [key |-> r.key, tool |-> tool, hit |-> r.hit, exc |-> r.exc,
              result |-> r.result]
  /\ returned' = IF r.exc = "none" THEN returned \cup {<<r.key, r.result>>}
                 ELSE returned
  /\ katex_cache' = r.cache
  /\ popen' = popen \o r.spawned
  /\ IF r.exc = "none"
     THEN /\ disk' = disk \o written
          /\ rets' = Append(rets, r.result)
          /\ UNCHANGED <<pc, err>>
     ELSE /\ pc' = "raised"
          /\ err' = r.exc
          /\ disk' = content
          /\ UNCHANGED rets

\* the loop has the math token tok, katex() called for it with the tool
\* behaving as tool had the outcome r, and written goes to the file if the
\* call returned
Replace(tok, tool, r, written) ==
  /\ lexpos' = tok.end
  /\ toks' = Append(toks, tok)
  /\ seen' = seen \cup {[source |-> tok.value.expression,
                         display |-> tok.value.display_mode, key |-> r.key]}
  /\ last' = [key |-> r.key, tool |-> tool, hit |-> r.hit, exc |-> r.exc,
              result |-> r.result]
  /\ returned' = IF r.exc = "none" THEN returned \cup {<<r.key, r.result>>}
                 ELSE returned
  /\ katex_cache' = r.cache
  /\ popen' = popen \o r.spawned
  /\ IF r.exc = "none"
     THEN /\ disk' = disk \o written
          /\ rets' = Append(rets, r.result)
          /\ UNCHANGED <<pc, err>>
     ELSE /\ pc' = "raised"
          /\ err' = r.exc
          /\ UNCHANGED <<disk, rets>>

\* lines 139-141
Call(tok, tool) ==
  katex(html_unescape(tok.value.expression), tok.value.display_mode,
        katex_cache, tool)

\* the matched text is written, not what katex() returned
write_output_LATEXMutRaw ==
  /\ pc = "write"
  /\ LexToken(content, lexpos) # None
  /\ LexToken(content, lexpos).type # "HTML"
  /\ LexToken(content, lexpos).value_type = "LatexExpression"
  /\ \E tool \in ToolBehaviours :
       Replace(LexToken(content, lexpos), tool,
               Call(LexToken(content, lexpos), tool),
               LexToken(content, lexpos).text)
  /\ UNCHANGED <<calls, lexer>>
  /\ UNCHANGED <<cache_file, loaded, todo, filename, content, cache0, popen0>>

\* write_output, one turn of the loop with a math token: katex() on the
\* unescaped expression, and its result written in place of the region.
\* An exception of katex() leaves write_output and process_file (whose with
\* statement closes the file) and ends process_files.
write_output_LATEX ==
  /\ pc = "write"
  /\ LexToken(content, lexpos) # None
  /\ LexToken(content, lexpos).type # "HTML"
  /\ LexToken(content, lexpos).value_type = "LatexExpression"
  /\ \E tool \in ToolBehaviours :
       Replace(LexToken(content, lexpos), tool,
               Call(LexToken(content, lexpos), tool),
               Call(LexToken(content, lexpos), tool).result)
  /\ UNCHANGED <<calls, lexer>>
  /\ UNCHANGED <<cache_file, loaded, todo, filename, content, cache0, popen0>>

\* line 141 for a token whose expression is None: html.unescape(None)
\* raises TypeError before katex() is called
write_output_TypeError ==
  /\ pc = "write"
  /\ LexToken(content, lexpos) # None
  /\ LexToken(content, lexpos).type # "HTML"
  /\ LexToken(content, lexpos).value_type = "LatexExpression of None"
  /\ lexpos' = LexToken(content, lexpos).end
  /\ toks' = Append(toks, LexToken(content, lexpos))
  /\ pc' = "raised"
  /\ err' = "TypeError"
  /\ UNCHANGED <<cache_file, katex_cache, loaded, todo, filename, disk,
                 content, rets, cache0, popen, popen0, seen, returned, last,
                 calls, lexer>>

\* write_output returns at the end of the buffer; process_file closes the
\* file and returns to the walk
write_output_return ==
  /\ pc = "write"
  /\ LexToken(content, lexpos) = None
  /\ pc' = "walk"
  /\ todo' = todo - 1
  /\ UNCHANGED <<calls, lexer>>
  /\ UNCHANGED <<cache_file, katex_cache, loaded, filename, disk, content,
                 lexpos, toks, rets, cache0, popen, popen0,
                 seen, returned, last, err>>

\* lines 105-108: after the walk
SaveCache ==
  /\ pc = "walk"
  /\ todo = 0
  /\ USE_PERSISTENT_CACHE
  /\ cache_file' = save_cache(katex_cache)
  /\ pc' = "done"
  /\ calls' = [calls EXCEPT !.save_cache = @ + 1]
  /\ UNCHANGED lexer
  /\ UNCHANGED <<katex_cache, loaded, todo, filename, disk, content, lexpos,
                 toks, rets, cache0, popen, popen0,
                 seen, returned, last, err>>

Next ==
  \/ LoadCache
  \/ SkipFile
  \/ process_file
  \/ process_file_IOError
  \/ write_output_HTML
  \/ write_output_LATEX
  \/ write_output_return
  \/ SaveCache

Spec == Init /\ [][Next]_vars

(***************************************************************************)
(* The same run with DISPLAY_LATEX_REGEX replaced by a pattern that has no *)
(* capture group, <pre\s+class="math">[\S\s]+?</pre>.                      *)
(***************************************************************************)
CfgInit ==
  /\ pc = "start"
  /\ cache_file = NoFile
  /\ katex_cache = <<>>
  /\ loaded = <<>>
  /\ todo = MaxFiles
  /\ filename = ""
  /\ disk = <<>>
  /\ content = <<>>
  /\ lexpos = 1
  /\ toks = <<>>
  /\ rets = <<>>
  /\ cache0 = <<>>
  /\ popen = <<>>
  /\ popen0 = 0
  /\ seen = {}
  /\ returned = {}
  /\ last = None
  /\ err = "none"
  /\ calls = NoCalls
  /\ lexer = BareLexer

CfgNext ==
  \/ LoadCache
  \/ SkipFile
  \/ process_file
  \/ process_file_IOError
  \/ write_output_HTML
  \/ write_output_LATEX
  \/ write_output_TypeError
  \/ write_output_return
  \/ SaveCache

CfgSpec == CfgInit /\ [][CfgNext]_vars

(***************************************************************************)
(* The lexer alone: lexer.input(D) for a document D, then lexer.token()    *)
(* until it returns None.                                                  *)
(***************************************************************************)
ScanInit ==
  /\ pc = "scan"
  /\ content \in ScanDocs
  /\ lexpos = 1
  /\ toks = <<>>
  /\ cache_file = NoFile
  /\ katex_cache = <<>>
  /\ loaded = <<>>
  /\ todo = 0
  /\ filename = ""
  /\ disk = <<>>
  /\ rets = <<>>
  /\ cache0 = <<>>
  /\ popen = <<>>
  /\ popen0 = 0
  /\ seen = {}
  /\ returned = {}
  /\ last = None
  /\ err = "none"
  /\ calls = NoCalls
  /\ lexer = DefaultLexer

ScanToken ==
  /\ pc = "scan"
  /\ LexToken(content, lexpos) # None
  /\ toks' = Append(toks, LexToken(content, lexpos))
  /\ lexpos' = LexToken(content, lexpos).end
  /\ UNCHANGED <<calls, lexer>>
  /\ UNCHANGED <<pc, cache_file, katex_cache, loaded, todo, filename, disk,
                 content, rets, cache0, popen, popen0,
                 seen, returned, last, err>>

ScanEnd ==
  /\ pc = "scan"
  /\ LexToken(content, lexpos) = None
  /\ pc' = "eof"
  /\ UNCHANGED <<calls, lexer>>
  /\ UNCHANGED <<cache_file, katex_cache, loaded, todo, filename, disk,
                 content, lexpos, toks, rets, cache0, popen, popen0,
                 seen, returned, last, err>>

ScanNext == ScanToken \/ ScanEnd

ScanSpec == ScanInit /\ [][ScanNext]_vars

\* The same loop under weak fairness of its step: write_output calls
\* lexer.token() again as long as it has not returned None, and nothing in
\* the loop waits for anything.  The documents are those of one piece less.
LiveDocs == {Flatten(ss) : ss \in SeqsUpTo(Pieces, MaxPieces - 1)}

LiveInit ==
  /\ pc = "scan"
  /\ content \in LiveDocs
  /\ lexpos = 1
  /\ toks = <<>>
  /\ cache_file = NoFile
  /\ katex_cache = <<>>
  /\ loaded = <<>>
  /\ todo = 0
  /\ filename = ""
  /\ disk = <<>>
  /\ rets = <<>>
  /\ cache0 = <<>>
  /\ popen = <<>>
  /\ popen0 = 0
  /\ seen = {}
  /\ returned = {}
  /\ last = None
  /\ err = "none"
  /\ calls = NoCalls
  /\ lexer = DefaultLexer

ScanLive == LiveInit /\ [][ScanNext]_vars /\ WF_vars(ScanNext)

(***************************************************************************)
(* The cache alone: entries stored as katex() stores them, in any order,   *)
(* then save_cache, then load_cache.                                       *)
(***************************************************************************)
Sources == {<<>>, <<"0">>, <<"1">>, <<"x">>, <<"1", "x">>}
Renderings == {<<"y">>, <<>>}

CacheInit ==
  /\ pc = "cache"
  /\ cache_file = NoFile
  /\ katex_cache = <<>>
  /\ loaded = <<>>
  /\ todo = 0
  /\ filename = ""
  /\ disk = <<>>
  /\ content = <<>>
  /\ lexpos = 1
  /\ toks = <<>>
  /\ rets = <<>>
  /\ cache0 = <<>>
  /\ popen = <<>>
  /\ popen0 = 0
  /\ seen = {}
  /\ returned = {}
  /\ last = None
  /\ err = "none"
  /\ calls = NoCalls
  /\ lexer = DefaultLexer

\* line 126, reached only for a key the cache does not hold
CacheStore ==
  /\ pc = "cache"
  /\ Len(katex_cache) < MaxEntries
  /\ \E latex \in Sources, display_mode \in BOOLEAN, result \in Renderings :
       /\ ~CacheHas(katex_cache, <<latex, display_mode>>)
       /\ katex_cache' = CachePut(katex_cache, <<latex, display_mode>>, result)
  /\ UNCHANGED <<calls, lexer>>
  /\ UNCHANGED <<pc, cache_file, loaded, todo, filename, disk, content, lexpos,
                 toks, rets, cache0, popen, popen0, seen, returned, last, err>>

CacheSave ==
  /\ pc = "cache"
  /\ cache_file' = save_cache(katex_cache)
  /\ pc' = "saved"
  /\ UNCHANGED <<calls, lexer>>
  /\ UNCHANGED <<katex_cache, loaded, todo, filename, disk, content, lexpos,
                 toks, rets, cache0, popen, popen0, seen, returned, last, err>>

CacheLoad ==
  /\ pc = "saved"
  /\ loaded' = load_cache(cache_file).cache
  /\ err' = load_cache(cache_file).exc
  /\ pc' = "reloaded"
  /\ UNCHANGED <<calls, lexer>>
  /\ UNCHANGED <<cache_file, katex_cache, todo, filename, disk, content,
                 lexpos, toks, rets, cache0, popen, popen0, seen, returned,
                 last>>

CacheNext == CacheStore \/ CacheSave \/ CacheLoad

CacheSpec == CacheInit /\ [][CacheNext]_vars

(***************************************************************************)
(* Properties.                                                             *)
(***************************************************************************)
IsMath(t) == t.type # "HTML"
MathToks == SelectSeq(toks, IsMath)
HtmlToks == SelectSeq(toks, LAMBDA t : t.type = "HTML")

\* the matched text of the tokens returned so far, in order
TextSoFar == Flatten([i \in 1..Len(toks) |-> toks[i].text])

\* C1 (ScanSpec): the tokens of a document consume contiguous, non-empty,
\* non-overlapping regions starting at the first character; an HTML token
\* is one character; the matched texts concatenated are the document up to
\* the cursor, and the whole document once the lexer has returned None.
LosslessPartition ==
  /\ \A i \in 1..Len(toks) :
       /\ toks[i].lexpos = (IF i = 1 THEN 1 ELSE toks[i - 1].end)
       /\ toks[i].end = toks[i].lexpos + Len(toks[i].text)
       /\ toks[i].text # <<>>
       /\ toks[i].type = "HTML" => Len(toks[i].text) = 1
  /\ TextSoFar = Slice(content, 1, lexpos - 1)
  /\ pc = "eof" => /\ lexpos = Len(content) + 1
                   /\ TextSoFar = content

WitnessLosslessPartition ==
  /\ pc = "eof"
  /\ Len(MathToks) >= 1
  /\ Len(HtmlToks) >= 1
  /\ TextSoFar = content

\* what the file holds after the tokens ts when katex() returned rs for the
\* math tokens among them (a math token katex() raised for adds nothing)
RECURSIVE Composed(_, _)
Composed(ts, rs) ==
  IF ts = <<>> THEN <<>>
  ELSE IF Head(ts).type = "HTML" THEN Head(ts).text \o Composed(Tail(ts), rs)
  ELSE IF rs = <<>> THEN Composed(Tail(ts), rs)
  ELSE Head(rs) \o Composed(Tail(ts), Tail(rs))

\* C2 (Spec): what has been written to the file is, in document order, the
\* text of every HTML token and, in place of every math token, the string
\* katex() returned for it, and nothing else.
OutputComposition ==
  /\ disk = Composed(toks, rets)
  /\ Len(rets) <= Len(MathToks)
  /\ pc # "raised" => Len(rets) = Len(MathToks)
  /\ \A j \in 1..Len(rets) : \E a \in returned : a[2] = rets[j]

\* x<tt class="math">&amp;</tt> becomes x[&]
WitnessOutputComposition ==
  /\ pc = "walk"
  /\ content = <<"x">> \o InlineMath(<<"&", "a", "m", "p", ";">>)
  /\ lexpos = Len(content) + 1
  /\ disk = <<"x", "[", "&", "]">>

\* text is  open \s+ class="math"> S close
IsRegion(text, open, close, S) ==
  \E k \in 1..Len(text) :
    /\ Len(text) = Len(open) + k + Len(CLASS_MATH) + Len(S) + Len(close)
    /\ LitAt(text, 1, open)
    /\ \A i \in 1..k : text[Len(open) + i] \in WhiteSpace
    /\ LitAt(text, Len(open) + k + 1, CLASS_MATH)
    /\ LitAt(text, Len(open) + k + Len(CLASS_MATH) + 1, S)
    /\ LitAt(text, Len(text) - Len(close) + 1, close)

\* C3 (ScanSpec): a token of the display rule carries display flag true and
\* as its source exactly the text between the delimiters of the region it
\* matched; a token of the inline rule carries flag false and the text
\* between its delimiters; the source is never empty, and a region that
\* opens with the display marker never yields an inline token or the reverse.
SpanClassification ==
  \A i \in 1..Len(toks) :
    LET t == toks[i]
    IN /\ t.type = "LATEX_DISPLAY" =>
            /\ t.value.display_mode = TRUE
            /\ t.value.expression # <<>>
            /\ IsRegion(t.text, PRE_OPEN, PRE_CLOSE, t.value.expression)
       /\ t.type = "LATEX_INLINE" =>
            /\ t.value.display_mode = FALSE
            /\ t.value.expression # <<>>
            /\ IsRegion(t.text, TT_OPEN, TT_CLOSE, t.value.expression)
       /\ t.type # "HTML" =>
            /\ LitAt(t.text, 1, PRE_OPEN) <=> t.type = "LATEX_DISPLAY"
            /\ LitAt(t.text, 1, TT_OPEN) <=> t.type = "LATEX_INLINE"

WitnessSpanClassification ==
  /\ pc = "eof"
  /\ \E i \in 1..Len(toks) :
       /\ toks[i].type = "LATEX_DISPLAY"
       /\ toks[i].value = LatexExpression(TRUE, <<"x">>)
  /\ \E i \in 1..Len(toks) : toks[i].type = "HTML"

\* no position of d starts a region either pattern matches
NoMathRegion(d) ==
  \A p \in 1..Len(d) :
    /\ INLINE_LATEX_REGEX(d, p) = None
    /\ DISPLAY_LATEX_REGEX(d, p) = None

\* process_file has returned from rewriting a non-empty file
FileRewritten ==
  /\ pc \in {"walk", "done"}
  /\ content # <<>>
  /\ lexpos = Len(content) + 1

\* C4 (Spec): once process_file has rewritten a non-empty file that holds
\* no complete math region, the file holds what it held before, no child
\* process was started for it and the cache is as it was on entry.
LiteralRoundTrip ==
  (FileRewritten /\ NoMathRegion(content)) =>
    /\ disk = content
    /\ Len(popen) = popen0
    /\ katex_cache = cache0

\* a file that ends inside a math region that is never closed
WitnessLiteralRoundTrip ==
  /\ FileRewritten
  /\ content = <<"x">> \o TT_MARK \o <<"x">>
  /\ disk = content

\* the child processes started for a key
Starts(k) ==
  Cardinality({i \in 1..Len(popen) :
                 popen[i].stdin = k[1] /\ popen[i].args = Args(k[2])})

ReturnedKeys == {a[1] : a \in returned}

\* C5 (Spec): in a run the tool is started at most once for a key and never
\* for a key of the loaded cache; every string katex() returns for a key is
\* the same string; a key katex() returned a string for and that was not
\* loaded has exactly one start, however many files and regions ask for it.
CacheDeterminism ==
  /\ \A i, j \in 1..Len(popen) :
       (popen[i].stdin = popen[j].stdin /\ popen[i].args = popen[j].args)
         => i = j
  /\ \A k \in CacheKeys(loaded) : Starts(k) = 0
  /\ \A a, b \in returned : a[1] = b[1] => a[2] = b[2]
  /\ \A k \in ReturnedKeys \ CacheKeys(loaded) : Starts(k) = 1
  /\ (last # None /\ last.hit) => last.result = CacheGet(katex_cache, last.key)

\* a second file asks for a key a first file had rendered
WitnessCacheDeterminism ==
  /\ FileRewritten
  /\ last # None
  /\ last.hit
  /\ last.key \notin CacheKeys(loaded)
  /\ CacheHas(cache0, last.key)
  /\ Starts(last.key) = 1

\* C6 (CacheSpec): save_cache followed by load_cache gives a cache with the
\* same keys and the same values, whatever the sources and the insertion
\* order; distinct keys have distinct encodings and decoding an encoding
\* gives the key back.
PersistenceRoundTrip ==
  /\ pc = "reloaded" =>
       /\ err = "none"
       /\ AsMap(loaded) = AsMap(katex_cache)
       /\ Len(loaded) = Len(katex_cache)
  /\ \A k1, k2 \in CacheKeys(katex_cache) :
       k1 # k2 => EncodeKey(k1) # EncodeKey(k2)
  /\ \A k \in CacheKeys(katex_cache) : DecodeKey(EncodeKey(k)) = k

\* two entries whose sources are empty and begin with a flag character,
\* stored in the order opposite to the sorted one
WitnessPersistenceRoundTrip ==
  /\ pc = "reloaded"
  /\ Len(katex_cache) = 2
  /\ katex_cache[1].key = <<<<"1">>, FALSE>>
  /\ katex_cache[2].key = <<<<>>, FALSE>>
  /\ loaded # katex_cache

CacheProvenance ==
  /\ \A i \in 1..Len(katex_cache) :
       \/ \E j \in 1..Len(loaded) : loaded[j] = katex_cache[i]
       \/ \E j \in 1..Len(popen) :
            /\ popen[j].stdin = katex_cache[i].key[1]
            /\ popen[j].args = Args(katex_cache[i].key[2])
            /\ popen[j].stdout # <<>>
            /\ popen[j].stdout = katex_cache[i].value
  /\ pc \notin {"start", "cache", "saved", "reloaded"} =>
       \A j \in 1..Len(loaded) :
         \E i \in 1..Len(katex_cache) : katex_cache[i] = loaded[j]

\* C9 as stated: a call of katex() whose tool started and wrote nothing
\* raises; it does not return.
RenderFailedSurfaces ==
  (last # None /\ ~last.hit /\ last.tool = "silent") => last.exc # "none"

\* C10 (Spec): the step in which Popen raises ends the run with that
\* exception, writes nothing to the file, leaves the cache as it was and
\* without an entry for the key that failed.
RenderUnavailablePropagates ==
  [][(err = "none" /\ err' = "OSError") =>
       /\ pc' = "raised"
       /\ last'.tool = "missing"
       /\ disk' = disk
       /\ rets' = rets
       /\ katex_cache' = katex_cache
       /\ ~CacheHas(katex_cache', last'.key)]_vars

\* the tool is missing at a math region that follows written text
WitnessRenderUnavailable ==
  /\ pc = "raised"
  /\ err = "OSError"
  /\ last # None
  /\ last.tool = "missing"
  /\ ~CacheHas(katex_cache, last.key)
  /\ disk # <<>>

\* C11 as stated: load_cache is called once, before the first file;
\* save_cache is called at most once and only after the last file; and a
\* run that has ended after taking up a file, by returning or by an
\* exception, has called save_cache.
CacheLifecycle ==
  /\ calls.load_cache = (IF pc = "start" THEN 0 ELSE 1)
  /\ calls.file # "none" => calls.load_cache = 1
  /\ calls.save_cache <= 1
  /\ calls.save_cache = 1 => (pc = "done" /\ todo = 0)
  /\ (pc \in {"done", "raised"} /\ calls.file # "none") =>
       calls.save_cache = 1

\* the exceptions that processing one file can raise with the shipped
\* patterns
FileErrors == {"IOError", "OSError", "UnicodeDecodeError"}

\* C12 as stated: an exception raised while one file is processed does not
\* end the run while the walk has other names left to yield (todo counts the
\* file being processed too).
FileFailureIsolation ==
  (pc = "raised" /\ err \in FileErrors) => todo <= 1

\* C13 as stated: once load_cache has been called on a cache file that is
\* absent or does not parse, the run holds an empty loaded cache and has not
\* been ended by an exception of load_cache.
CacheLoadMiss ==
  (calls.load_cache = 1 /\ cache_file.state \in {"absent", "corrupt"}) =>
    /\ loaded = <<>>
    /\ err \notin {"ValueError", "IndexError"}
    /\ pc = "raised" => calls.file # "none"

\* the rearrangements of a cache: the same entries inserted in another order
Perms(n) == {p \in [1..n -> 1..n] : \A i, j \in 1..n : p[i] = p[j] => i = j}
Permuted(c, p) == [i \in 1..Len(c) |-> c[p[i]]]

\* C14 (CacheSpec): save_cache writes the same file for every insertion
\* order of the entries of the cache, its keys ascend strictly, the file
\* save_cache wrote is that file, and saving what load_cache read back from
\* it writes it again unchanged.
DeterministicSave ==
  /\ \A p \in Perms(Len(katex_cache)) :
       save_cache(Permuted(katex_cache, p)) = save_cache(katex_cache)
  /\ \A i \in 1..(Len(save_cache(katex_cache).items) - 1) :
       StrLess(save_cache(katex_cache).items[i].key,
               save_cache(katex_cache).items[i + 1].key)
  /\ pc \in {"saved", "reloaded"} => cache_file = save_cache(katex_cache)
  /\ (pc = "reloaded" /\ err = "none") => save_cache(loaded) = cache_file

\* two entries were stored in the order opposite to that of their keys in
\* the file, and the file was read back
WitnessDeterministicSave ==
  /\ pc = "reloaded"
  /\ Len(katex_cache) = 2
  /\ cache_file.items[1].key = EncodeKey(katex_cache[2].key)
  /\ cache_file.items[2].key = EncodeKey(katex_cache[1].key)

\* C15 (Spec): a file that was read and found empty is never opened for
\* writing; after process_file has returned for it the file is as it was,
\* no token was taken, no child process was started and the cache is the
\* one process_file was entered with.
EmptyFileUntouched ==
  /\ (content = <<>> /\ calls.file \in {"empty", "opened"}) =>
       calls.file = "empty"
  /\ calls.file = "empty" =>
       /\ pc \in {"walk", "done"}
       /\ content = <<>>
       /\ disk = content
       /\ toks = <<>>
       /\ rets = <<>>
       /\ Len(popen) = popen0
       /\ katex_cache = cache0

\* the last file of a run was empty, met with a cache that has entries
WitnessEmptyFileUntouched ==
  /\ pc = "done"
  /\ calls.file = "empty"
  /\ content = <<>>
  /\ katex_cache # <<>>
  /\ popen # <<>>

\* the two math rules: opening literal, closing literal, token type
MathRules ==
  {[open |-> TT_OPEN, close |-> TT_CLOSE, type |-> "LATEX_INLINE"],
   [open |-> PRE_OPEN, close |-> PRE_CLOSE, type |-> "LATEX_DISPLAY"]}

\* an opening marker (open, whitespace, class="math">) starts at pos of d
\* and ends right before in
OpensAt(d, pos, open, in) ==
  /\ LitAt(d, pos, open)
  /\ in - Len(CLASS_MATH) > pos + Len(open)
  /\ LitAt(d, in - Len(CLASS_MATH), CLASS_MATH)
  /\ \A j \in (pos + Len(open))..(in - Len(CLASS_MATH) - 1) :
       d[j] \in WhiteSpace

\* the positions from from on where the closing literal starts
ClosesFrom(d, from, close) == {e \in from..Len(d) : LitAt(d, e, close)}

\* the token t, if taken where an opening marker ends right before in with
\* a closing literal at or after in + least, is the rule's math token and
\* ends with the earliest such closing literal
ShortestAt(t, r, in, least) ==
  (/\ OpensAt(content, t.lexpos, r.open, in)
   /\ ClosesFrom(content, in + least, r.close) # {}) =>
    /\ t.type = r.type
    /\ \A e \in ClosesFrom(content, in + least, r.close) :
         t.end <= e + Len(r.close)
    /\ t.end - Len(r.close) \in ClosesFrom(content, in + least, r.close)

\* that, for the token taken last (every token is the last one in the state
\* after it was taken), and the cursor stands at its end
ShortestFrom(least) ==
  toks # <<>> =>
    /\ \A r \in MathRules, in \in toks[Len(toks)].lexpos..(Len(content) + 1) :
         ShortestAt(toks[Len(toks)], r, in, least)
    /\ lexpos = toks[Len(toks)].end

\* C16 as stated: the math token ends at the earliest closing marker after
\* the opening marker, also when that one follows the opening marker at once.
ShortestMatch == ShortestFrom(0)

\* C16 (ScanSpec), amended: the math token ends at the earliest closing
\* marker that starts at least one character after the opening marker.
ShortestNonEmptyMatch == ShortestFrom(1)

\* a closing marker right after the opening marker was taken as the start of
\* the source, and the token ends at the next closing marker
WitnessShortestNonEmptyMatch ==
  /\ pc = "eof"
  /\ Len(toks) = 1
  /\ toks[1].type = "LATEX_INLINE"
  /\ toks[1].value.expression = TT_CLOSE \o <<"x">>

\* C17 as stated: every child process of the run was started with the
\* arguments of its mode, had its input written and closed, and has been
\* terminated, whether its exchange returned or raised; and the last call,
\* if it missed the cache and the tool started, started the last of them
\* for its own key.
ProcessLifecycle ==
  /\ \A j \in 1..Len(popen) :
       /\ popen[j].args \in {Args(TRUE), Args(FALSE)}
       /\ popen[j].stdin_closed
       /\ popen[j].terminated
  /\ (last # None /\ ~last.hit /\ last.tool # "missing") =>
       /\ popen # <<>>
       /\ popen[Len(popen)].stdin = last.key[1]
       /\ popen[Len(popen)].args = Args(last.key[2])

\* C18 (ScanLive): a call of lexer.token() that returns a token moves the
\* cursor forward, by one character at least and not past the end; before
\* the end of the buffer some rule matches, so a token is returned; None is
\* returned only at the end of the buffer; and the loop ends.
ScanTermination ==
  /\ [][(pc = "scan" /\ pc' = "scan") =>
          /\ lexpos' > lexpos
          /\ lexpos' <= Len(content) + 1
          /\ Len(toks') = Len(toks) + 1]_vars
  /\ [][(pc = "scan" /\ pc' = "eof") => lexpos = Len(content) + 1]_vars
  /\ [](pc = "scan" /\ lexpos <= Len(content) =>
          LexToken(content, lexpos) # None)
  /\ <>(pc = "eof")

\* the loop has ended on a document that starts with an opening marker
\* never closed and goes on after it: every character was returned as a
\* token of its own
WitnessScanTermination ==
  /\ pc = "eof"
  /\ lexpos = Len(content) + 1
  /\ LitAt(content, 1, PRE_MARK)
  /\ Len(content) > Len(PRE_MARK) + 1
  /\ Len(toks) = Len(content)

\* C19 as stated (CfgSpec, the display pattern has no capture group): no
\* run ends with an exception raised for a region the display rule matched,
\* and no token of the display rule is taken, the region's characters being
\* literal text.
MissingCaptureGroup ==
  lexer.display_groups = 0 =>
    /\ err \notin {"TypeError", "AttributeError"}
    /\ \A i \in 1..Len(toks) : toks[i].type # "LATEX_DISPLAY"

\* the key katex() is called with for a math token
KeyOf(t) == <<html_unescape(t.value.expression), t.value.display_mode>>

\* C20 (Spec): when a call of katex() has raised, the file had been opened
\* for writing, it holds the output composed of the tokens before the
\* failing math token and nothing else, which is not what was read from it,
\* and the cache holds, for every earlier math token of the file, what
\* katex() returned for it.
PartialOverwrite ==
  (pc = "raised" /\ err \in {"OSError", "UnicodeDecodeError"}) =>
    /\ calls.file = "opened"
    /\ toks # <<>>
    /\ IsMath(toks[Len(toks)])
    /\ Len(rets) = Len(MathToks) - 1
    /\ disk = Composed(SubSeq(toks, 1, Len(toks) - 1), rets)
    /\ disk # content
    /\ \A j \in 1..Len(rets) :
         /\ CacheHas(katex_cache, KeyOf(MathToks[j]))
         /\ CacheGet(katex_cache, KeyOf(MathToks[j])) = rets[j]

\* the exchange for the second math region of a file failed after the first
\* one was rendered, stored and written
WitnessPartialOverwrite ==
  /\ pc = "raised"
  /\ err = "UnicodeDecodeError"
  /\ Len(rets) = 1
  /\ rets[1] # <<>>
  /\ disk = rets[1]
  /\ Len(katex_cache) = Len(cache0) + 1

====
